---------------------------- MODULE Spec2Model ----------------------------
(***************************************************************************)
(* Model of TubeSolver (src/tube.py): the tube configuration, can_pour and *)
(* pour, the state fingerprint, is_solved, the colour analysis, the move   *)
(* planner, the backup move and the solve loop.                            *)
(*                                                                         *)
(* A tube is a sequence of colours, bottom first (index 1 here is Python   *)
(* index 0).  A configuration is a function from the tube indices 0..n-1   *)
(* to tubes, so that the (from, to) pairs of the move trace are the        *)
(* program's own indices.                                                  *)
(***************************************************************************)
EXTENDS Integers, Sequences, FiniteSets, TLC

\* Bounds of the model.
MaxTubes == 3
NumColors == 2
MaxUnits == 4
MaxManual == 2
MaxMoves == 5
MaxKept == 1
MaxPlanUnits == 8
MaxHashUnits == 2

Colors == 1..NumColors

\* tube_capacity is an instance field; __init__ sets it to 4 and the
\* documented end-to-end example runs the same engine with capacity 2.
Capacities == {2, 4}

VARIABLES original_tubes, tubes, tube_capacity, moves, visited_states,
          total_colors, empty_tubes_count, pc, last

vars == <<original_tubes, tubes, tube_capacity, moves, visited_states,
          total_colors, empty_tubes_count, pc, last>>

-----------------------------------------------------------------------------
\* Generic helpers.

Range(s) == {s[i] : i \in DOMAIN s}

Top(tube) == tube[Len(tube)]

\* Python's s[-k:] and s[:-k]; for k = 0 these are s[0:] and s[:0].
SliceLast(s, k) == IF k = 0 THEN s ELSE SubSeq(s, Len(s) - k + 1, Len(s))
SliceButLast(s, k) == IF k = 0 THEN <<>> ELSE SubSeq(s, 1, Len(s) - k)

Min(a, b) == IF a <= b THEN a ELSE b

NumTubes(tb) == Cardinality(DOMAIN tb)

UnitCount(tb) ==
    LET RECURSIVE Sum(_)
        Sum(i) == IF i = 0 THEN 0 ELSE Len(tb[i - 1]) + Sum(i - 1)
    IN Sum(NumTubes(tb))

-----------------------------------------------------------------------------
\* __init__ helpers.

count_total_colors(orig) ==
    Cardinality(UNION {Range(orig[i]) : i \in DOMAIN orig})

\* Mutant: the required empty tubes taken as the tubes left over once every
\* colour has one.
count_empty_tubes_by_difference(orig) ==
    NumTubes(orig) - Cardinality(UNION {Range(orig[i]) : i \in DOMAIN orig})

count_empty_tubes(orig) ==
    Cardinality({i \in DOMAIN orig : Len(orig[i]) = 0})

-----------------------------------------------------------------------------
\* can_pour and pour.

\* Mutant: > for >= in the capacity test.
can_pour_over_capacity(tb, cap, from_index, to_index) ==
    IF from_index = to_index THEN FALSE
    ELSE IF Len(tb[from_index]) = 0 THEN FALSE
    ELSE IF Len(tb[to_index]) > cap THEN FALSE
    ELSE Len(tb[to_index]) = 0 \/ Top(tb[to_index]) = Top(tb[from_index])

\* Mutant: the destination's top colour is not compared.
can_pour_ignoring_color(tb, cap, from_index, to_index) ==
    IF from_index = to_index THEN FALSE
    ELSE IF Len(tb[from_index]) = 0 THEN FALSE
    ELSE Len(tb[to_index]) < cap

can_pour(tb, cap, from_index, to_index) ==
    IF from_index = to_index THEN FALSE
    ELSE IF Len(tb[from_index]) = 0 THEN FALSE
    ELSE IF Len(tb[to_index]) >= cap THEN FALSE
    ELSE Len(tb[to_index]) = 0 \/ Top(tb[to_index]) = Top(tb[from_index])

\* The loop of pour that counts the same-colour run at the top of a tube.
RECURSIVE RunFrom(_, _, _)
RunFrom(tube, from_color, i) ==
    IF i = 0 THEN 0
    ELSE IF tube[i] = from_color THEN 1 + RunFrom(tube, from_color, i - 1)
    ELSE 0

\* Mutant: one unit per pour.
top_run_single(tube) == 1

top_run(tube) == RunFrom(tube, Top(tube), Len(tube))

\* Mutant: the run is not clamped by the destination's space.
pour_count_unclamped(tb, cap, from_index, to_index) ==
    top_run(tb[from_index])

pour_count(tb, cap, from_index, to_index) ==
    Min(top_run(tb[from_index]), cap - Len(tb[to_index]))

\* Mutant: the source loses its whole run, whatever the destination takes.
pour_tubes_losing_run(tb, cap, from_index, to_index) ==
    LET n == pour_count(tb, cap, from_index, to_index)
        poured == SliceLast(tb[from_index], n)
    IN [tb EXCEPT ![from_index] = SliceButLast(tb[from_index], top_run(tb[from_index])),
                  ![to_index] = tb[to_index] \o poured]

\* The tubes after the mutation of an accepted pour.
pour_tubes(tb, cap, from_index, to_index) ==
    LET n == pour_count(tb, cap, from_index, to_index)
        poured == SliceLast(tb[from_index], n)
    IN [tb EXCEPT ![from_index] = SliceButLast(tb[from_index], n),
                  ![to_index] = tb[to_index] \o poured]

\* Mutant: the refusal forgets the colour test of can_pour.
pour_ignoring_color(tb, cap, mv, from_index, to_index) ==
    IF \/ from_index = to_index
       \/ Len(tb[from_index]) = 0
       \/ Len(tb[to_index]) >= cap
    THEN [tubes |-> tb, moves |-> mv, ret |-> FALSE]
    ELSE [tubes |-> pour_tubes(tb, cap, from_index, to_index),
          moves |-> Append(mv, <<from_index, to_index>>),
          ret |-> TRUE]

\* pour as a function of (tubes, moves): the new tubes, the new trace and
\* the returned boolean.
pour(tb, cap, mv, from_index, to_index) ==
    IF ~can_pour(tb, cap, from_index, to_index)
    THEN [tubes |-> tb, moves |-> mv, ret |-> FALSE]
    ELSE [tubes |-> pour_tubes(tb, cap, from_index, to_index),
          moves |-> Append(mv, <<from_index, to_index>>),
          ret |-> TRUE]

-----------------------------------------------------------------------------
\* get_state_hash.  Strings are sequences of code points.

Comma == 44
Bar == 124
Zero == 48

RECURSIVE IntToStr(_)
IntToStr(n) ==
    IF n < 10 THEN <<Zero + n>>
    ELSE IntToStr(n \div 10) \o <<Zero + (n % 10)>>

RECURSIVE Join(_, _)
Join(strs, sep) ==
    IF Len(strs) = 0 THEN <<>>
    ELSE IF Len(strs) = 1 THEN strs[1]
    ELSE strs[1] \o <<sep>> \o Join(Tail(strs), sep)

\* Mutant: the colours of a tube are written without a separator.
TubeStr_unseparated(tube) ==
    LET strs == [i \in 1..Len(tube) |-> IntToStr(tube[i])]
        RECURSIVE Cat(_)
        Cat(n) == IF n = 0 THEN <<>> ELSE Cat(n - 1) \o strs[n]
    IN Cat(Len(tube))

TubeStr(tube) == Join([i \in 1..Len(tube) |-> IntToStr(tube[i])], Comma)

\* Python's < on strings: lexicographic by code point, a proper prefix first.
RECURSIVE StrLess(_, _)
StrLess(a, b) ==
    IF Len(b) = 0 THEN FALSE
    ELSE IF Len(a) = 0 THEN TRUE
    ELSE IF a[1] # b[1] THEN a[1] < b[1]
    ELSE StrLess(Tail(a), Tail(b))

\* Mutant: the insertion does not compare.
InsertSorted_first(x, s) == <<x>> \o s

\* Stable insertion of x into the sorted sequence s, after its equals.
RECURSIVE InsertSorted(_, _)
InsertSorted(x, s) ==
    IF Len(s) = 0 THEN <<x>>
    ELSE IF StrLess(x, s[1]) THEN <<x>> \o s
    ELSE <<s[1]>> \o InsertSorted(x, Tail(s))

\* Mutant: the per-tube strings are joined in index order.
SortedStrs_unsorted(strs) == strs

RECURSIVE SortedStrs(_)
SortedStrs(strs) ==
    IF Len(strs) = 0 THEN <<>>
    ELSE InsertSorted(strs[Len(strs)], SortedStrs(SubSeq(strs, 1, Len(strs) - 1)))

get_state_hash(tb) ==
    Join(SortedStrs([i \in 1..NumTubes(tb) |-> TubeStr(tb[i - 1])]), Bar)

-----------------------------------------------------------------------------
\* is_solved.

SingleColor(tube) == \A i \in 1..Len(tube) : tube[i] = tube[1]

\* Mutant: the empty tubes are not counted.
is_solved_ignoring_empty(tb, cap, tc, ec) ==
    IF \E i \in DOMAIN tb :
          /\ Len(tb[i]) # 0
          /\ (Len(tb[i]) # cap \/ ~SingleColor(tb[i]))
    THEN FALSE
    ELSE Cardinality({i \in DOMAIN tb : Len(tb[i]) # 0}) = tc

is_solved(tb, cap, tc, ec) ==
    IF \E i \in DOMAIN tb :
          /\ Len(tb[i]) # 0
          /\ (Len(tb[i]) # cap \/ ~SingleColor(tb[i]))
    THEN FALSE
    ELSE LET completed == Cardinality({i \in DOMAIN tb : Len(tb[i]) # 0})
             empty == Cardinality({i \in DOMAIN tb : Len(tb[i]) = 0})
         IN completed = tc /\ empty = ec

get_empty_tubes(tb) == {i \in DOMAIN tb : Len(tb[i]) = 0}

get_tubes_with_space(tb, cap) == {i \in DOMAIN tb : Len(tb[i]) < cap}


-----------------------------------------------------------------------------
\* Sequence helpers for the planner.

\* The concatenation of the first n members of a sequence of sequences.
RECURSIVE FlattenTo(_, _)
FlattenTo(ss, n) == IF n = 0 THEN <<>> ELSE FlattenTo(ss, n - 1) \o ss[n]

Flatten(ss) == FlattenTo(ss, Len(ss))

\* The members of a set of integers in ascending order.
Ascending(S) ==
    [k \in 1..Cardinality(S) |->
        CHOOSE x \in S : Cardinality({y \in S : y < x}) = k - 1]

MaxOf(S) == CHOOSE x \in S : \A y \in S : y <= x

-----------------------------------------------------------------------------
\* analyze_colors and find_target_color.

\* The occurrences of a colour: pairs <<tube_index, depth>>.
Occurrences(tb, color) ==
    UNION {{<<i, Len(tb[i]) - k>> : k \in {j \in 1..Len(tb[i]) : tb[i][j] = color}} :
             i \in DOMAIN tb}

\* Mutant: the colours are kept whatever their number of units.
analyze_colors_any_count(tb, cap) ==
    LET all_colors == UNION {Range(tb[i]) : i \in DOMAIN tb}
    IN [c \in all_colors |->
          LET positions == Occurrences(tb, c)
          IN [total_count |-> Cardinality(positions),
              is_collectible |-> \E p \in positions : p[2] = 0,
              max_depth |-> IF positions = {} THEN 0
                            ELSE MaxOf({p[2] : p \in positions}),
              top_positions |-> Cardinality({p \in positions : p[2] = 0})]]

analyze_colors(tb, cap) ==
    LET all_colors == UNION {Range(tb[i]) : i \in DOMAIN tb}
        kept == {c \in all_colors : Cardinality(Occurrences(tb, c)) = cap}
    IN [c \in kept |->
          LET positions == Occurrences(tb, c)
          IN [total_count |-> Cardinality(positions),
              is_collectible |-> \E p \in positions : p[2] = 0,
              max_depth |-> IF positions = {} THEN 0
                            ELSE MaxOf({p[2] : p \in positions}),
              top_positions |-> Cardinality({p \in positions : p[2] = 0})]]

color_score(data) ==
    data.max_depth * 10
      + (IF data.top_positions > 1 THEN data.top_positions * 5 ELSE 0)

\* find_target_color keeps the first colour of the strictly highest score in
\* the iteration order of a Python set, which the language leaves open: the
\* result is any collectible colour of maximal score.  The empty set is None.
find_target_color(tb, cap) ==
    LET analysis == analyze_colors(tb, cap)
        collectible == {c \in DOMAIN analysis : analysis[c].is_collectible}
    IN {c \in collectible :
          \A d \in collectible : color_score(analysis[d]) <= color_score(analysis[c])}

-----------------------------------------------------------------------------
\* find_moves_for_color.

Collect == 80
Free == 90
FreeToEmpty == 95
Merge == 70

Candidate(f, t, ty, pr) == [from |-> f, to |-> t, type |-> ty, priority |-> pr]

\* target_positions after the stable sort by descending depth: deepest
\* first, equal depths in ascending tube index.
target_positions(tb, target_color) ==
    LET occ == Occurrences(tb, target_color)
        depths == Ascending({p[2] : p \in occ})
        nd == Len(depths)
    IN Flatten([k \in 1..nd |->
          LET d == depths[nd + 1 - k]
              ts == Ascending({p[1] : p \in {q \in occ : q[2] = d}})
          IN [j \in 1..Len(ts) |-> <<ts[j], d>>]])

\* Mutant: the candidates are not filtered by can_pour.
moves_for_position_unchecked(tb, cap, p) ==
    LET src == p[1]
        with_space == Ascending({t \in get_tubes_with_space(tb, cap) : src # t})
        empties == Ascending({t \in get_empty_tubes(tb) : src # t})
    IN IF p[2] = 0
       THEN [j \in 1..Len(with_space) |->
               Candidate(src, with_space[j], "collect", Collect)]
       ELSE [j \in 1..Len(with_space) |->
               Candidate(src, with_space[j], "free", Free)]
            \o [j \in 1..Len(empties) |->
               Candidate(src, empties[j], "free_to_empty", FreeToEmpty)]

\* The candidates one occurrence contributes, in generation order.
moves_for_position(tb, cap, p) ==
    LET src == p[1]
        with_space == Ascending({t \in get_tubes_with_space(tb, cap) :
                                    src # t /\ can_pour(tb, cap, src, t)})
        empties == Ascending({t \in get_empty_tubes(tb) :
                                 src # t /\ can_pour(tb, cap, src, t)})
    IN IF p[2] = 0
       THEN [j \in 1..Len(with_space) |->
               Candidate(src, with_space[j], "collect", Collect)]
       ELSE [j \in 1..Len(with_space) |->
               Candidate(src, with_space[j], "free", Free)]
            \o [j \in 1..Len(empties) |->
               Candidate(src, empties[j], "free_to_empty", FreeToEmpty)]

merge_moves(tb, cap, target_color) ==
    LET tops == Ascending({i \in DOMAIN tb :
                             Len(tb[i]) > 0 /\ Top(tb[i]) = target_color})
        n == Len(tops)
    IN IF n > 1
       THEN Flatten([i \in 1..n |->
              LET js == Ascending({j \in (i + 1)..n :
                                     can_pour(tb, cap, tops[i], tops[j])})
              IN [k \in 1..Len(js) |->
                    Candidate(tops[i], tops[js[k]], "merge", Merge)]])
       ELSE <<>>

\* Mutant: the candidates are left in generation order.
SortByPriority_generation_order(ms) == ms

\* sorted(moves, key=priority, reverse=True): stable, so equal priorities
\* keep their generation order.
SortByPriority(ms) ==
    LET ps == Ascending({ms[i].priority : i \in 1..Len(ms)})
        np == Len(ps)
    IN Flatten([k \in 1..np |->
          LET IsKth(m) == m.priority = ps[np + 1 - k]
          IN SelectSeq(ms, IsKth)])

generated_moves(tb, cap, target_color) ==
    LET tp == target_positions(tb, target_color)
    IN Flatten([k \in 1..Len(tp) |-> moves_for_position(tb, cap, tp[k])])
       \o merge_moves(tb, cap, target_color)

find_moves_for_color(tb, cap, target_color) ==
    SortByPriority(generated_moves(tb, cap, target_color))

-----------------------------------------------------------------------------
\* find_backup_move.  The result is <<from, to>>, or NoMove for None.

NoMove == <<>>

legal_moves(tb, cap) ==
    {m \in (DOMAIN tb) \X (DOMAIN tb) : can_pour(tb, cap, m[1], m[2])}

\* The first pair of a set of pairs in lexicographic order.
FirstPair(S) ==
    CHOOSE p \in S : \A q \in S : p[1] < q[1] \/ (p[1] = q[1] /\ p[2] <= q[2])

\* First pass: pairs <<to, from>> in the order of the nested loops.
almost_complete_moves(tb, cap) ==
    {m \in (DOMAIN tb) \X (DOMAIN tb) :
        LET to_idx == m[1]
            from_idx == m[2]
        IN /\ Len(tb[to_idx]) = cap - 1
           /\ SingleColor(tb[to_idx])
           /\ from_idx # to_idx
           /\ can_pour(tb, cap, from_idx, to_idx)
           /\ Len(tb[from_idx]) > 0
           /\ Top(tb[from_idx]) = tb[to_idx][1]}

\* Mutant: the exhaustive second pass is missing.
find_backup_move_first_pass(tb, cap) ==
    IF almost_complete_moves(tb, cap) # {}
    THEN LET m == FirstPair(almost_complete_moves(tb, cap)) IN <<m[2], m[1]>>
    ELSE NoMove

\* Mutant: the pass over the almost complete tubes is missing.
find_backup_move_second_pass(tb, cap) ==
    IF legal_moves(tb, cap) # {}
    THEN FirstPair(legal_moves(tb, cap))
    ELSE NoMove

find_backup_move(tb, cap) ==
    IF almost_complete_moves(tb, cap) # {}
    THEN LET m == FirstPair(almost_complete_moves(tb, cap)) IN <<m[2], m[1]>>
    ELSE IF legal_moves(tb, cap) # {}
    THEN FirstPair(legal_moves(tb, cap))
    ELSE NoMove

-----------------------------------------------------------------------------
\* The state machine.  pc is "idle" between calls and "Running" inside the
\* while loop of solve; last is the latest call with its arguments and result.

NoArg == 0 - 1

Call(op, f, t, ret, hash) ==
    [op |-> op, from |-> f, to |-> t, ret |-> ret, hash |-> hash]

TubesUpTo(cap) == UNION {[1..k -> Colors] : k \in 0..cap}

\* The configurations a caller can hand to __init__: one to MaxTubes tubes,
\* none longer than the capacity, MaxUnits units at most.
Configurations(cap) ==
    UNION {{tb \in [0..(n - 1) -> TubesUpTo(cap)] : UnitCount(tb) <= MaxUnits} :
             n \in 1..MaxTubes}

Init ==
    /\ tube_capacity \in Capacities
    /\ original_tubes \in Configurations(tube_capacity)
    /\ tubes = original_tubes
    /\ moves = <<>>
    /\ visited_states = {}
    /\ total_colors = count_total_colors(original_tubes)
    /\ empty_tubes_count = count_empty_tubes(original_tubes)
    /\ pc = "idle"
    /\ last = Call("init", NoArg, NoArg, FALSE, <<>>)

Solved == is_solved(tubes, tube_capacity, total_colors, empty_tubes_count)

\* The trace a specification keeps: all of it, or its first MaxKept pairs
\* where only the loop's control matters (solve never reads the trace).
Kept(mv, whole) ==
    IF whole \/ Len(mv) <= MaxKept THEN mv ELSE SubSeq(mv, 1, MaxKept)

Room(whole) == whole => Len(moves) < MaxMoves

CallCanPour(f, t) ==
    /\ pc = "idle"
    /\ last' = Call("can_pour", f, t, can_pour(tubes, tube_capacity, f, t), <<>>)
    /\ UNCHANGED <<original_tubes, tubes, tube_capacity, moves, visited_states,
                   total_colors, empty_tubes_count, pc>>

CallPour(f, t) ==
    /\ pc = "idle"
    /\ Len(moves) < MaxManual
    /\ LET r == pour(tubes, tube_capacity, moves, f, t)
       IN /\ tubes' = r.tubes
          /\ moves' = r.moves
          /\ last' = Call("pour", f, t, r.ret, <<>>)
    /\ UNCHANGED <<original_tubes, tube_capacity, visited_states,
                   total_colors, empty_tubes_count, pc>>

CallGetStateHash ==
    /\ pc = "idle"
    /\ last' = Call("get_state_hash", NoArg, NoArg, FALSE, get_state_hash(tubes))
    /\ UNCHANGED <<original_tubes, tubes, tube_capacity, moves, visited_states,
                   total_colors, empty_tubes_count, pc>>

CallIsSolved ==
    /\ pc = "idle"
    /\ last' = Call("is_solved", NoArg, NoArg, Solved, <<>>)
    /\ UNCHANGED <<original_tubes, tubes, tube_capacity, moves, visited_states,
                   total_colors, empty_tubes_count, pc>>

\* Mutant: visited_states.clear() is missing from the reset.
SolveEnter_keeping_visited ==
    /\ pc = "idle"
    /\ tubes' = original_tubes
    /\ moves' = <<>>
    /\ pc' = "Running"
    /\ last' = Call("solve", NoArg, NoArg, FALSE, <<>>)
    /\ UNCHANGED <<original_tubes, tube_capacity, visited_states,
                   total_colors, empty_tubes_count>>

\* solve, lines 243-249: the reset before the loop.
SolveEnter ==
    /\ pc = "idle"
    /\ tubes' = original_tubes
    /\ moves' = <<>>
    /\ visited_states' = {}
    /\ pc' = "Running"
    /\ last' = Call("solve", NoArg, NoArg, FALSE, <<>>)
    /\ UNCHANGED <<original_tubes, tube_capacity, total_colors, empty_tubes_count>>

\* The loop condition fails: solve returns is_solved().
SolveExit ==
    /\ pc = "Running"
    /\ Solved
    /\ pc' = "idle"
    /\ last' = Call("solve", NoArg, NoArg, Solved, <<>>)
    /\ UNCHANGED <<original_tubes, tubes, tube_capacity, moves, visited_states,
                   total_colors, empty_tubes_count>>

\* Mutant: the fingerprint is not recorded.
visited_add_nothing(vs, h) == vs

\* Mutant: only the latest fingerprint is remembered.
visited_add_forgetting(vs, h) == {h}

\* self.visited_states.add(state_hash).
visited_add(vs, h) == vs \cup {h}

\* Mutant: the escape forgets the fingerprints seen so far.
IterEscape_forgetting(m, whole) ==
    /\ pc = "Running"
    /\ ~Solved
    /\ Room(whole)
    /\ get_state_hash(tubes) \in visited_states
    /\ m \in legal_moves(tubes, tube_capacity)
    /\ LET r == pour(tubes, tube_capacity, moves, m[1], m[2])
       IN /\ tubes' = r.tubes
          /\ moves' = Kept(r.moves, whole)
    /\ visited_states' = {}
    /\ UNCHANGED <<original_tubes, tube_capacity,
                   total_colors, empty_tubes_count, pc, last>>

\* One iteration on a repeated fingerprint that finds a legal pour.
IterEscape(m, whole) ==
    /\ pc = "Running"
    /\ ~Solved
    /\ Room(whole)
    /\ get_state_hash(tubes) \in visited_states
    /\ m \in legal_moves(tubes, tube_capacity)
    /\ LET r == pour(tubes, tube_capacity, moves, m[1], m[2])
       IN /\ tubes' = r.tubes
          /\ moves' = Kept(r.moves, whole)
    /\ UNCHANGED <<original_tubes, tube_capacity, visited_states,
                   total_colors, empty_tubes_count, pc, last>>

\* One iteration on an unseen fingerprint that executes a planned move.
IterPlanned(whole) ==
    /\ pc = "Running"
    /\ ~Solved
    /\ Room(whole)
    /\ get_state_hash(tubes) \notin visited_states
    /\ visited_states' = visited_add(visited_states, get_state_hash(tubes))
    /\ \E c \in find_target_color(tubes, tube_capacity) :
          LET color_moves == find_moves_for_color(tubes, tube_capacity, c)
          IN /\ Len(color_moves) > 0
             /\ LET r == pour(tubes, tube_capacity, moves,
                              color_moves[1].from, color_moves[1].to)
                IN /\ tubes' = r.tubes
                   /\ moves' = Kept(r.moves, whole)
    /\ UNCHANGED <<original_tubes, tube_capacity,
                   total_colors, empty_tubes_count, pc, last>>

\* One iteration on an unseen fingerprint that falls back to the backup move.
IterBackup(whole) ==
    /\ pc = "Running"
    /\ ~Solved
    /\ Room(whole)
    /\ get_state_hash(tubes) \notin visited_states
    /\ visited_states' = visited_add(visited_states, get_state_hash(tubes))
    /\ LET targets == find_target_color(tubes, tube_capacity)
       IN \/ targets = {}
          \/ \E c \in targets : Len(find_moves_for_color(tubes, tube_capacity, c)) = 0
    /\ LET backup_move == find_backup_move(tubes, tube_capacity)
       IN /\ backup_move # NoMove
          /\ LET r == pour(tubes, tube_capacity, moves, backup_move[1], backup_move[2])
             IN /\ tubes' = r.tubes
                /\ moves' = Kept(r.moves, whole)
    /\ UNCHANGED <<original_tubes, tube_capacity,
                   total_colors, empty_tubes_count, pc, last>>

\* The three break statements (lines 265, 282, 288), each followed by the
\* return of is_solved().
IterBreak ==
    /\ pc = "Running"
    /\ ~Solved
    /\ IF get_state_hash(tubes) \in visited_states
       THEN /\ legal_moves(tubes, tube_capacity) = {}
            /\ UNCHANGED visited_states
       ELSE /\ LET targets == find_target_color(tubes, tube_capacity)
               IN \/ targets = {}
                  \/ \E c \in targets :
                        Len(find_moves_for_color(tubes, tube_capacity, c)) = 0
            /\ find_backup_move(tubes, tube_capacity) = NoMove
            /\ visited_states' = visited_add(visited_states, get_state_hash(tubes))
    /\ pc' = "idle"
    /\ last' = Call("solve", NoArg, NoArg, Solved, <<>>)
    /\ UNCHANGED <<original_tubes, tubes, tube_capacity, moves,
                   total_colors, empty_tubes_count>>

Pairs == (0..(MaxTubes - 1)) \X (0..(MaxTubes - 1))

Next ==
    \/ \E m \in Pairs : m[1] \in DOMAIN tubes /\ m[2] \in DOMAIN tubes /\ CallCanPour(m[1], m[2])
    \/ \E m \in Pairs : m[1] \in DOMAIN tubes /\ m[2] \in DOMAIN tubes /\ CallPour(m[1], m[2])
    \/ CallGetStateHash
    \/ CallIsSolved
    \/ SolveEnter
    \/ SolveExit
    \/ \E m \in Pairs : IterEscape(m, TRUE)
    \/ IterPlanned(TRUE)
    \/ IterBackup(TRUE)
    \/ IterBreak

Spec == Init /\ [][Next]_vars

-----------------------------------------------------------------------------
\* The solve loop alone, re-entered at will, with the trace cut to its first
\* MaxKept pairs so that a run that never stops is a cycle of states.

LiveNext ==
    \/ SolveEnter
    \/ SolveExit
    \/ \E m \in Pairs : IterEscape(m, FALSE)
    \/ IterPlanned(FALSE)
    \/ IterBackup(FALSE)
    \/ IterBreak

\* One step of the running loop.
LoopStep ==
    \/ SolveExit
    \/ \E m \in Pairs : IterEscape(m, FALSE)
    \/ IterPlanned(FALSE)
    \/ IterBackup(FALSE)
    \/ IterBreak

\* An escape pour that reaches an unseen fingerprint, and one that reaches a
\* configuration where the loop stops.
EscapeToUnseen ==
    \E m \in Pairs :
        IterEscape(m, FALSE) /\ get_state_hash(tubes') \notin visited_states

EscapeToStop ==
    \E m \in Pairs :
        /\ IterEscape(m, FALSE)
        /\ \/ is_solved(tubes', tube_capacity, total_colors, empty_tubes_count)
           \/ legal_moves(tubes', tube_capacity) = {}

\* ENABLED of the two, as state predicates.
Seen == get_state_hash(tubes) \in visited_states

CanEscapeToUnseen ==
    /\ pc = "Running"
    /\ ~Solved
    /\ Seen
    /\ \E m \in legal_moves(tubes, tube_capacity) :
          get_state_hash(pour_tubes(tubes, tube_capacity, m[1], m[2]))
             \notin visited_states

CanEscapeToStop ==
    /\ pc = "Running"
    /\ ~Solved
    /\ Seen
    /\ \E m \in legal_moves(tubes, tube_capacity) :
          LET tb == pour_tubes(tubes, tube_capacity, m[1], m[2])
          IN \/ is_solved(tb, tube_capacity, total_colors, empty_tubes_count)
             \/ legal_moves(tb, tube_capacity) = {}

\* The fairness of one solve run.  The loop never pauses: WF_vars(LoopStep),
\* where some step of the loop is enabled exactly while pc = "Running".
\* random.choice is fair: whenever a pair that leads to an unseen fingerprint
\* (or to a stop) is legal again and again, such a pair is chosen again and
\* again: SF_vars(EscapeToUnseen) and SF_vars(EscapeToStop), with ENABLED
\* written as the state predicates above.
LiveSpec ==
    /\ Init
    /\ [][LiveNext]_vars
    /\ WF_vars(SolveExit)
    /\ ([]<>(pc # "Running") \/ []<><<LoopStep>>_vars)
    /\ (<>[](~CanEscapeToUnseen) \/ []<><<EscapeToUnseen>>_vars)
    /\ (<>[](~CanEscapeToStop) \/ []<><<EscapeToStop>>_vars)

-----------------------------------------------------------------------------
\* The planner on configurations of up to MaxPlanUnits units: its functions
\* called on their own, and the solve loop that calls them.  For the calls of
\* find_target_color and find_backup_move the from and to fields of last
\* carry the result, the colour or the pair returned (NoArg for None), and
\* ret tells whether it is not None.

PlanConfigurations(cap) ==
    UNION {{tb \in [0..(n - 1) -> TubesUpTo(cap)] : UnitCount(tb) <= MaxPlanUnits} :
             n \in 1..MaxTubes}

PlannerInit ==
    /\ tube_capacity \in Capacities
    /\ original_tubes \in PlanConfigurations(tube_capacity)
    /\ tubes = original_tubes
    /\ moves = <<>>
    /\ visited_states = {}
    /\ total_colors = count_total_colors(original_tubes)
    /\ empty_tubes_count = count_empty_tubes(original_tubes)
    /\ pc = "idle"
    /\ last = Call("init", NoArg, NoArg, FALSE, <<>>)

CallFindTargetColor ==
    /\ pc = "idle"
    /\ LET targets == find_target_color(tubes, tube_capacity)
       IN IF targets = {}
          THEN last' = Call("find_target_color", NoArg, NoArg, FALSE, <<>>)
          ELSE \E c \in targets :
                  last' = Call("find_target_color", c, NoArg, TRUE, <<>>)
    /\ UNCHANGED <<original_tubes, tubes, tube_capacity, moves, visited_states,
                   total_colors, empty_tubes_count, pc>>

CallFindBackupMove ==
    /\ pc = "idle"
    /\ LET backup_move == find_backup_move(tubes, tube_capacity)
       IN IF backup_move = NoMove
          THEN last' = Call("find_backup_move", NoArg, NoArg, FALSE, <<>>)
          ELSE last' = Call("find_backup_move", backup_move[1], backup_move[2],
                            TRUE, <<>>)
    /\ UNCHANGED <<original_tubes, tubes, tube_capacity, moves, visited_states,
                   total_colors, empty_tubes_count, pc>>

PlannerNext ==
    \/ CallFindTargetColor
    \/ CallFindBackupMove
    \/ SolveEnter
    \/ SolveExit
    \/ \E m \in Pairs : IterEscape(m, TRUE)
    \/ IterPlanned(TRUE)
    \/ IterBackup(TRUE)
    \/ IterBreak

PlannerSpec == PlannerInit /\ [][PlannerNext]_vars

-----------------------------------------------------------------------------
\* The fingerprint and the solve loop on configurations of up to MaxHashUnits
\* units whose colours include identifiers of two digits, as the colours 10,
\* 11 and 12 of tubes_12_colors.

HashColors == Colors \cup {10 + c : c \in Colors}

HashTubesUpTo(cap) == UNION {[1..k -> HashColors] : k \in 0..Min(cap, MaxHashUnits)}

HashConfigurations(cap) ==
    UNION {{tb \in [0..(n - 1) -> HashTubesUpTo(cap)] : UnitCount(tb) <= MaxHashUnits} :
             n \in 1..MaxTubes}

HashInit ==
    /\ tube_capacity \in Capacities
    /\ original_tubes \in HashConfigurations(tube_capacity)
    /\ tubes = original_tubes
    /\ moves = <<>>
    /\ visited_states = {}
    /\ total_colors = count_total_colors(original_tubes)
    /\ empty_tubes_count = count_empty_tubes(original_tubes)
    /\ pc = "idle"
    /\ last = Call("init", NoArg, NoArg, FALSE, <<>>)

HashNext ==
    \/ CallGetStateHash
    \/ SolveEnter
    \/ SolveExit
    \/ \E m \in Pairs : IterEscape(m, TRUE)
    \/ IterPlanned(TRUE)
    \/ IterBackup(TRUE)
    \/ IterBreak

HashSpec == HashInit /\ [][HashNext]_vars

-----------------------------------------------------------------------------
\* Properties.

ColorUnits(tb, c) == Cardinality(Occurrences(tb, c))

\* C1: in every reachable state the tubes hold, colour by colour, as many
\* units as the original configuration, in as many tubes.
UnitConservation ==
    /\ DOMAIN tubes = DOMAIN original_tubes
    /\ \A c \in Colors : ColorUnits(tubes, c) = ColorUnits(original_tubes, c)

UnitConservationWitness ==
    /\ Len(moves) > 0
    /\ tubes # original_tubes
    /\ \E i \in DOMAIN tubes : Len(tubes[i]) > 0 /\ top_run(tubes[i]) >= 2
                                 /\ Len(original_tubes[i]) < Len(tubes[i])

\* C2: no tube ever holds more than tube_capacity units.
CapacityInvariant ==
    \A i \in DOMAIN tubes : Len(tubes[i]) <= tube_capacity

\* A pour filled its destination and had to leave part of the run behind.
CapacityWitness ==
    /\ last.op = "pour"
    /\ last.ret
    /\ Len(tubes[last.to]) = tube_capacity
    /\ Len(tubes[last.from]) > 0
    /\ Top(tubes[last.from]) = Top(tubes[last.to])

InRange(m) == m[1] \in DOMAIN tubes /\ m[2] \in DOMAIN tubes

\* C3: a pour that can_pour refuses returns False, leaves the tubes, the
\* trace and the visited set as they were, and is refused again.
RefusedPourInert ==
    [][\A m \in Pairs :
         (InRange(m) /\ CallPour(m[1], m[2])
            /\ ~can_pour(tubes, tube_capacity, m[1], m[2]))
         => /\ last'.ret = FALSE
            /\ tubes' = tubes
            /\ moves' = moves
            /\ visited_states' = visited_states
            /\ ~can_pour(tubes', tube_capacity, m[1], m[2])
            /\ ~pour(tubes', tube_capacity, moves', m[1], m[2]).ret]_vars

\* A pour between two distinct non-empty tubes was refused after earlier
\* accepted pours.
RefusedPourWitness ==
    /\ last.op = "pour"
    /\ ~last.ret
    /\ last.from # last.to
    /\ Len(tubes[last.from]) > 0
    /\ Len(tubes[last.to]) < tube_capacity
    /\ Len(moves) > 0

\* The length of the maximal same-colour run at the top of a non-empty tube,
\* stated without the loop of pour.
MaximalRun(tube) ==
    CHOOSE k \in 1..Len(tube) :
        /\ \A i \in (Len(tube) - k + 1)..Len(tube) : tube[i] = Top(tube)
        /\ (k = Len(tube) \/ tube[Len(tube) - k] # Top(tube))

\* C4: an accepted pour returns True, moves min(run, space) >= 1 units from
\* the top of the source to the top of the destination, appends (from, to)
\* to the trace and touches no other tube; when the whole run fits, the
\* source is left empty or with another colour on top.
RunPour ==
    [][\A m \in Pairs :
         (InRange(m) /\ CallPour(m[1], m[2])
            /\ can_pour(tubes, tube_capacity, m[1], m[2]))
         => LET src == tubes[m[1]]
                dst == tubes[m[2]]
                r == MaximalRun(src)
                s == tube_capacity - Len(dst)
                k == Min(r, s)
            IN /\ last'.ret = TRUE
               /\ k >= 1
               /\ tubes'[m[1]] = SubSeq(src, 1, Len(src) - k)
               /\ tubes'[m[2]] = dst \o [i \in 1..k |-> Top(src)]
               /\ \A i \in DOMAIN tubes : i \notin {m[1], m[2]} => tubes'[i] = tubes[i]
               /\ DOMAIN tubes' = DOMAIN tubes
               /\ moves' = Append(moves, m)
               /\ (s >= r => /\ Len(tubes'[m[1]]) = Len(src) - r
                             /\ (tubes'[m[1]] = <<>> \/ Top(tubes'[m[1]]) # Top(src)))]_vars

\* A pour moved a run of two or more units onto a non-empty destination and
\* uncovered another colour.
RunPourWitness ==
    /\ last.op = "pour"
    /\ last.ret
    /\ Len(moves) > 0
    /\ moves[Len(moves)] = <<last.from, last.to>>
    /\ Len(tubes[last.to]) >= 3
    /\ top_run(tubes[last.to]) >= 3
    /\ Len(tubes[last.from]) > 0
    /\ Top(tubes[last.from]) # Top(tubes[last.to])

\* C5: can_pour answers True exactly when the tubes differ, the source is
\* not empty, the destination is below capacity and is empty or has the
\* source's top colour on top; the call changes nothing.
CanPourExact ==
    [][\A m \in Pairs :
         (InRange(m) /\ CallCanPour(m[1], m[2]))
         => /\ last'.ret = (/\ m[1] # m[2]
                            /\ Len(tubes[m[1]]) > 0
                            /\ Len(tubes[m[2]]) < tube_capacity
                            /\ (Len(tubes[m[2]]) = 0
                                  \/ Top(tubes[m[2]]) = Top(tubes[m[1]])))
            /\ UNCHANGED <<original_tubes, tubes, tube_capacity, moves,
                           visited_states, total_colors, empty_tubes_count>>]_vars

CanPourWitness ==
    /\ last.op = "can_pour"
    /\ last.ret
    /\ Len(tubes[last.to]) > 0
    /\ Len(moves) > 0

CompleteTube(tube, cap) == Len(tube) = cap /\ Cardinality(Range(tube)) = 1

\* C6: is_solved is True exactly when every tube is empty or complete, the
\* complete tubes are as many as the colours of the original configuration
\* and the empty tubes as many as its empty tubes; one empty tube too many
\* is not solved.
SolvedExact ==
    LET complete == {i \in DOMAIN tubes : CompleteTube(tubes[i], tube_capacity)}
        empty == {i \in DOMAIN tubes : tubes[i] = <<>>}
        exact == /\ complete \cup empty = DOMAIN tubes
                 /\ Cardinality(complete) = count_total_colors(original_tubes)
                 /\ Cardinality(empty) = count_empty_tubes(original_tubes)
    IN /\ Solved = exact
       /\ (last.op = "is_solved" => last.ret = exact)
       /\ (/\ complete \cup empty = DOMAIN tubes
           /\ Cardinality(complete) = count_total_colors(original_tubes)
           /\ Cardinality(empty) = count_empty_tubes(original_tubes) + 1) => ~Solved

\* is_solved was asked with every colour complete and one empty tube more
\* than the original configuration had.
SolvedExactWitness ==
    /\ last.op = "is_solved"
    /\ ~last.ret
    /\ \A i \in DOMAIN tubes :
          tubes[i] = <<>> \/ CompleteTube(tubes[i], tube_capacity)
    /\ Cardinality({i \in DOMAIN tubes : tubes[i] # <<>>}) = total_colors
    /\ Cardinality({i \in DOMAIN tubes : tubes[i] = <<>>}) = empty_tubes_count + 1

ExampleTubes == [i \in 0..1 |-> <<1>>]

ExamplePoured == [i \in 0..1 |-> IF i = 0 THEN <<>> ELSE <<1, 1>>]

\* C7 as stated: on [[1],[1]] with capacity 2, pour(0,1) succeeds, leaves
\* [[],[1,1]] and is_solved() is then True.
ExampleIsSolved ==
    [][(/\ tube_capacity = 2
        /\ original_tubes = ExampleTubes
        /\ tubes = ExampleTubes
        /\ CallPour(0, 1))
       => (last'.ret /\ tubes' = ExamplePoured /\ Solved')]_vars

\* C7 amended: on [[1],[1]] with capacity 2, pour(0,1) succeeds and leaves
\* [[],[1,1]], and is_solved() is then False: the original configuration
\* had no empty tube, the poured one has one.
ExampleIsNotSolved ==
    [][(/\ tube_capacity = 2
        /\ original_tubes = ExampleTubes
        /\ tubes = ExampleTubes
        /\ CallPour(0, 1))
       => (last'.ret /\ tubes' = ExamplePoured /\ ~Solved'
             /\ total_colors' = 1 /\ empty_tubes_count' = 0)]_vars

ExampleWitness ==
    /\ tube_capacity = 2
    /\ original_tubes = ExampleTubes
    /\ tubes = ExamplePoured
    /\ last = Call("pour", 0, 1, TRUE, <<>>)
    /\ moves = <<<<0, 1>>>>

TubePermutations(S) == {p \in [S -> S] : \A a, b \in S : a # b => p[a] # p[b]}

Permuted(tb, p) == [i \in DOMAIN tb |-> tb[p[i]]]

\* C8: get_state_hash gives every permutation of the tubes the fingerprint
\* it gives the tubes themselves, and changes nothing.
FingerprintCanonical ==
    [][CallGetStateHash
       => /\ \A p \in TubePermutations(DOMAIN tubes) :
                get_state_hash(Permuted(tubes, p)) = last'.hash
          /\ UNCHANGED <<original_tubes, tubes, tube_capacity, moves,
                         visited_states, total_colors, empty_tubes_count>>]_vars

\* The fingerprint was taken of tubes that are not in sorted order.
FingerprintWitness ==
    /\ last.op = "get_state_hash"
    /\ Len(moves) > 0
    /\ \E i, j \in DOMAIN tubes :
          i < j /\ StrLess(TubeStr(tubes[j]), TubeStr(tubes[i]))

\* C9 as stated: every run of solve eventually stops.
SolveTerminates == (pc = "Running") ~> (pc = "idle")

\* C9 amended: a run of solve need not stop (on [[1],[1]] with capacity 2 it
\* pours back and forth for ever); every run either stops, or from some
\* iteration on takes only the random escape branch.
SolveStopsOrOnlyEscapes ==
    []<>(pc = "idle") \/ <>[](pc = "Running" /\ Seen)

\* The loop is at a repeated fingerprint from which every legal pour leads
\* to a fingerprint already seen.
OnlyEscapesWitness ==
    /\ pc = "Running"
    /\ ~Solved
    /\ Seen
    /\ legal_moves(tubes, tube_capacity) # {}
    /\ \A m \in legal_moves(tubes, tube_capacity) :
          get_state_hash(pour_tubes(tubes, tube_capacity, m[1], m[2])) \in visited_states

\* The trace replayed with pour on a configuration: the tubes reached and
\* whether every pour was accepted.
RECURSIVE Replay(_, _, _)
Replay(tb, cap, mv) ==
    IF Len(mv) = 0 THEN [tubes |-> tb, ok |-> TRUE]
    ELSE LET r == pour(tb, cap, <<>>, mv[1][1], mv[1][2])
             rest == Replay(r.tubes, cap, Tail(mv))
         IN [tubes |-> rest.tubes, ok |-> r.ret /\ rest.ok]

\* C10: when solve has returned, its verdict is is_solved() of the final
\* tubes; an unsolved verdict comes with no legal pour left; and the trace
\* is the pours that lead from the original configuration to the final one.
StuckOnlyFailure ==
    (pc = "idle" /\ last.op = "solve")
    => /\ last.ret = Solved
       /\ (~last.ret => \A f, t \in DOMAIN tubes : ~can_pour(tubes, tube_capacity, f, t))
       /\ Replay(original_tubes, tube_capacity, moves).ok
       /\ Replay(original_tubes, tube_capacity, moves).tubes = tubes

\* solve returned unsolved after executing pours.
StuckWitness ==
    /\ pc = "idle"
    /\ last.op = "solve"
    /\ ~last.ret
    /\ Len(moves) >= 2
    /\ visited_states # {}


\* No pair of tubes admits a pour, stated without can_pour.
Deadlocked(tb, cap) ==
    \A f, t \in DOMAIN tb :
        \/ f = t
        \/ tb[f] = <<>>
        \/ Len(tb[t]) >= cap
        \/ (tb[t] # <<>> /\ Top(tb[t]) # Top(tb[f]))

OriginalSolved ==
    is_solved(original_tubes, tube_capacity, total_colors, empty_tubes_count)

\* C11: when the original configuration is not solved and admits no legal
\* pour, a run of solve executes no pour and returns unsolved with an empty
\* trace and the tubes equal to the original configuration.
InitialDeadlock ==
    (~OriginalSolved /\ Deadlocked(original_tubes, tube_capacity))
    => /\ (pc = "Running" => tubes = original_tubes /\ moves = <<>>)
       /\ ((pc = "idle" /\ last.op = "solve")
             => ~last.ret /\ moves = <<>> /\ tubes = original_tubes)

\* solve returned unsolved, without a pour, on two or more tubes that are
\* all full, one of them mixed.
InitialDeadlockWitness ==
    /\ pc = "idle"
    /\ last.op = "solve"
    /\ ~last.ret
    /\ moves = <<>>
    /\ tubes = original_tubes
    /\ visited_states # {}
    /\ NumTubes(tubes) >= 2
    /\ \A i \in DOMAIN tubes : Len(tubes[i]) = tube_capacity
    /\ \E i \in DOMAIN tubes : ~SingleColor(tubes[i])

\* C12: a call of solve starts from the original configuration, an empty
\* trace and an empty visited set, whatever the state it is called in; no
\* step changes the original configuration, total_colors or
\* empty_tubes_count, which stay the counts of the original configuration.
ResetOnSolve ==
    [][/\ (pc = "idle" /\ pc' = "Running")
            => /\ tubes' = original_tubes
               /\ moves' = <<>>
               /\ visited_states' = {}
       /\ original_tubes' = original_tubes
       /\ total_colors' = total_colors
       /\ empty_tubes_count' = empty_tubes_count
       /\ total_colors' = count_total_colors(original_tubes')
       /\ empty_tubes_count' = count_empty_tubes(original_tubes')]_vars

\* The loop of solve is about to start its first iteration on an unsolved
\* original configuration that has a legal pour.
ResetWitness ==
    /\ pc = "Running"
    /\ last.op = "solve"
    /\ tubes = original_tubes
    /\ moves = <<>>
    /\ visited_states = {}
    /\ ~Solved
    /\ ~Deadlocked(tubes, tube_capacity)

\* C13: an iteration on a repeated fingerprint executes exactly one pour,
\* of a pair that is legal in the current configuration, and leaves the
\* visited set as it was, or stops unsolved when no pair is legal; an
\* iteration on an unseen fingerprint adds exactly that fingerprint to the
\* visited set.
CycleEscape ==
    [][(pc = "Running" /\ ~Solved)
       => IF get_state_hash(tubes) \in visited_states
          THEN /\ visited_states' = visited_states
               /\ \/ \E f, t \in DOMAIN tubes :
                        /\ can_pour(tubes, tube_capacity, f, t)
                        /\ tubes' = pour_tubes(tubes, tube_capacity, f, t)
                        /\ moves' = Append(moves, <<f, t>>)
                        /\ pc' = "Running"
                  \/ /\ Deadlocked(tubes, tube_capacity)
                     /\ tubes' = tubes
                     /\ moves' = moves
                     /\ pc' = "idle"
                     /\ ~last'.ret
          ELSE /\ Cardinality(visited_states') = Cardinality(visited_states) + 1
               /\ visited_states' = visited_states \cup {get_state_hash(tubes)}]_vars

\* The loop has executed more pours than it has recorded fingerprints: one
\* of them was an escape.
CycleEscapeWitness ==
    /\ pc = "Running"
    /\ visited_states # {}
    /\ Len(moves) > Cardinality(visited_states)

\* A step of the heuristic (unseen-fingerprint) branch.
HeuristicIteration ==
    /\ pc = "Running"
    /\ ~Solved
    /\ ~Seen
    /\ vars' # vars

\* C14: during a run of solve the visited set only grows and every
\* iteration on an unseen fingerprint records it, so the heuristic branch is
\* taken at most once per fingerprint; a run that never returns takes the
\* heuristic branch finitely often, and from then on only escapes.
OnlyEscapeRunsForever ==
    /\ [][pc = "Running"
            => /\ visited_states \subseteq visited_states'
               /\ (~Solved /\ ~Seen)
                    => visited_states' = visited_states \cup {get_state_hash(tubes)}]_vars
    /\ ([]<>(pc = "idle") \/ <>[][~HeuristicIteration]_vars)

\* The loop is on a repeated fingerprint after two or more heuristic
\* iterations, with a legal pour to escape by.
HeuristicSpentWitness ==
    /\ pc = "Running"
    /\ ~Solved
    /\ Seen
    /\ Cardinality(visited_states) >= 2
    /\ ~Deadlocked(tubes, tube_capacity)

\* C15: every iteration of solve that does not stop the loop appends one
\* pair to the trace, a pair that can_pour accepts in the configuration it
\* is poured on, and pours it; the loop has never recorded more fingerprints
\* than it has executed pours; and the trace replayed with pour from the
\* original configuration is accepted pair by pair and yields the tubes.
TraceFidelity ==
    /\ [][(pc = "Running" /\ pc' = "Running")
            => \E f, t \in DOMAIN tubes :
                  /\ can_pour(tubes, tube_capacity, f, t)
                  /\ pour(tubes, tube_capacity, moves, f, t).ret
                  /\ moves' = Append(moves, <<f, t>>)
                  /\ tubes' = pour(tubes, tube_capacity, moves, f, t).tubes]_vars
    /\ []((pc = "Running" \/ last.op = "solve")
            => /\ Replay(original_tubes, tube_capacity, moves).ok
               /\ Replay(original_tubes, tube_capacity, moves).tubes = tubes)
    /\ [](pc = "Running" => Cardinality(visited_states) <= Len(moves))

\* solve returned solved after three or more pours.
TraceWitness ==
    /\ pc = "idle"
    /\ last.op = "solve"
    /\ last.ret
    /\ Len(moves) >= 3
    /\ tubes # original_tubes

\* The units, the topmost occurrences and the deepest occurrence of a colour,
\* counted cell by cell.
Cells(tb, c) ==
    {x \in (DOMAIN tb) \X (1..MaxPlanUnits) : x[2] <= Len(tb[x[1]]) /\ tb[x[1]][x[2]] = c}

TopCount(tb, c) ==
    Cardinality({i \in DOMAIN tb : tb[i] # <<>> /\ Top(tb[i]) = c})

DeepestDepth(tb, c) ==
    CHOOSE d \in 0..MaxPlanUnits :
        /\ \E x \in Cells(tb, c) : Len(tb[x[1]]) - x[2] = d
        /\ \A x \in Cells(tb, c) : Len(tb[x[1]]) - x[2] <= d

TargetScore(tb, c) ==
    10 * DeepestDepth(tb, c) + (IF TopCount(tb, c) > 1 THEN 5 * TopCount(tb, c) ELSE 0)

Eligible(tb, cap) ==
    {c \in Colors : Cardinality(Cells(tb, c)) = cap /\ TopCount(tb, c) >= 1}

\* C16: find_target_color returns a colour exactly when some colour has
\* tube_capacity units, one of them on top of a tube; the colour returned is
\* such a colour, and none of them has a higher score, the score being 10
\* times the depth of its deepest unit, plus 5 times the number of its
\* topmost units when they are more than one.
TargetColourChoice ==
    last.op = "find_target_color"
    => /\ last.ret = (Eligible(tubes, tube_capacity) # {})
       /\ last.ret
            => /\ last.from \in Eligible(tubes, tube_capacity)
               /\ \A d \in Eligible(tubes, tube_capacity) :
                     TargetScore(tubes, d) <= TargetScore(tubes, last.from)
       /\ ~last.ret => last.from = NoArg

\* find_target_color preferred a colour to a lower-numbered colour that has
\* tube_capacity units and a unit on top as well, but a lower score.
TargetColourWitness ==
    /\ last.op = "find_target_color"
    /\ last.ret
    /\ \E d \in Eligible(tubes, tube_capacity) :
          d < last.from /\ TargetScore(tubes, d) < TargetScore(tubes, last.from)

\* The pair of the first-generated candidate of the highest priority.
Pick(tb, cap, c) ==
    LET g == generated_moves(tb, cap, c)
        best == MaxOf({g[i].priority : i \in 1..Len(g)})
        k == CHOOSE i \in 1..Len(g) :
                /\ g[i].priority = best
                /\ \A j \in 1..(i - 1) : g[j].priority # best
    IN <<g[k].from, g[k].to>>

\* A unit of the colour lies below the top of the tube.
BuriedIn(tube, c) == \E j \in 1..(Len(tube) - 1) : tube[j] = c

\* C17: in an iteration on an unseen fingerprint where a target colour
\* exists and the planner has candidates for it, the pair poured is the
\* first-generated candidate of the highest priority among the candidates
\* of a target colour; and when that colour has a buried unit and some tube
\* is empty, the source holds a buried unit of it and the destination is
\* an empty tube.
PlannerRanking ==
    [][(/\ pc = "Running"
        /\ pc' = "Running"
        /\ ~Solved
        /\ ~Seen
        /\ find_target_color(tubes, tube_capacity) # {}
        /\ \A c \in find_target_color(tubes, tube_capacity) :
              Len(generated_moves(tubes, tube_capacity, c)) > 0)
       => /\ Len(moves') = Len(moves) + 1
          /\ LET m == moves'[Len(moves')]
                 targets == find_target_color(tubes, tube_capacity)
             IN /\ moves' = Append(moves, m)
                /\ tubes' = pour_tubes(tubes, tube_capacity, m[1], m[2])
                /\ \E c \in targets : m = Pick(tubes, tube_capacity, c)
                /\ \A c \in targets :
                      (/\ m = Pick(tubes, tube_capacity, c)
                       /\ \E i \in DOMAIN tubes : BuriedIn(tubes[i], c)
                       /\ \E i \in DOMAIN tubes : tubes[i] = <<>>)
                      => /\ tubes[m[2]] = <<>>
                         /\ BuriedIn(tubes[m[1]], c)]_vars

\* The first iteration of solve poured a free_to_empty candidate that was
\* generated after a free candidate to another tube, with collect candidates
\* present as well.
PlannerRankingWitness ==
    /\ pc = "Running"
    /\ Len(moves) = 1
    /\ Cardinality(visited_states) = 1
    /\ \E c \in find_target_color(original_tubes, tube_capacity) :
          LET g == generated_moves(original_tubes, tube_capacity, c)
          IN /\ Len(g) > 0
             /\ moves[1] = Pick(original_tubes, tube_capacity, c)
             /\ g[1].priority = Free
             /\ <<g[1].from, g[1].to>> # moves[1]
             /\ original_tubes[moves[1][2]] = <<>>
             /\ \E i \in 1..Len(g) : g[i].priority = Collect

\* The pour from f to t is legal, stated without can_pour.
LegalPour(tb, cap, f, t) ==
    /\ f # t
    /\ tb[f] # <<>>
    /\ Len(tb[t]) < cap
    /\ (tb[t] = <<>> \/ Top(tb[t]) = Top(tb[f]))

\* Tube t holds cap - 1 units of one colour and tube f has that colour on top.
CompletesTube(tb, cap, f, t) ==
    /\ f # t
    /\ Len(tb[t]) = cap - 1
    /\ \A j \in 1..Len(tb[t]) : tb[t][j] = tb[t][1]
    /\ tb[f] # <<>>
    /\ Top(tb[f]) = tb[t][1]

\* C18: find_backup_move returns None exactly when no pour is legal; the
\* pair it returns is legal; and when some tube holds tube_capacity - 1
\* units of one colour and another tube has that colour on top, the pair
\* returned pours from such a tube into such an almost complete tube.
BackupMoveExact ==
    last.op = "find_backup_move"
    => /\ last.ret = (\E f, t \in DOMAIN tubes : LegalPour(tubes, tube_capacity, f, t))
       /\ last.ret => LegalPour(tubes, tube_capacity, last.from, last.to)
       /\ ~last.ret => (last.from = NoArg /\ last.to = NoArg)
       /\ (\E f, t \in DOMAIN tubes : CompletesTube(tubes, tube_capacity, f, t))
            => /\ last.ret
               /\ CompletesTube(tubes, tube_capacity, last.from, last.to)

\* find_backup_move returned a pair that completes a tube although a legal
\* pair comes before it in index order.
BackupMoveWitness ==
    /\ last.op = "find_backup_move"
    /\ last.ret
    /\ CompletesTube(tubes, tube_capacity, last.from, last.to)
    /\ \E f, t \in DOMAIN tubes :
          /\ LegalPour(tubes, tube_capacity, f, t)
          /\ ~CompletesTube(tubes, tube_capacity, f, t)
          /\ (f < last.from \/ (f = last.from /\ t < last.to))

\* Two configurations hold the same tubes, up to their order.
SameTubes(a, b) ==
    /\ DOMAIN a = DOMAIN b
    /\ \E p \in TubePermutations(DOMAIN a) : Permuted(a, p) = b

\* The configuration the first k pairs of the trace lead to.
ConfigurationAt(k) ==
    Replay(original_tubes, tube_capacity, SubSeq(moves, 1, k)).tubes

\* C19: a configuration with as many tubes as the current one has the
\* fingerprint of the current one only if it holds the same tubes up to
\* their order; and when an iteration of solve finds its fingerprint in the
\* visited set, the tubes are, up to their order, those of a configuration
\* the run went through earlier.
FingerprintInjective ==
    /\ last.op = "get_state_hash"
         => \A other \in HashConfigurations(tube_capacity) :
               (DOMAIN other = DOMAIN tubes /\ get_state_hash(other) = last.hash)
               => SameTubes(other, tubes)
    /\ (pc = "Running" /\ ~Solved /\ Seen)
         => \E k \in 0..(Len(moves) - 1) : SameTubes(ConfigurationAt(k), tubes)

\* The loop is on a repeated fingerprint, with a colour of two digits in the
\* tubes, and the tubes are a reordering of an earlier configuration, not
\* that configuration itself.
FingerprintInjectiveWitness ==
    /\ pc = "Running"
    /\ ~Solved
    /\ Seen
    /\ \E i \in DOMAIN tubes : \E j \in 1..Len(tubes[i]) : tubes[i][j] >= 10
    /\ \E k \in 0..(Len(moves) - 1) :
          SameTubes(ConfigurationAt(k), tubes) /\ ConfigurationAt(k) # tubes

\* C20 as stated: in an iteration on an unseen fingerprint the pair poured,
\* planned or backup, never has a completed tube as its source, and the pour
\* changes the fingerprint.
CompletedLeftAlone ==
    [][(/\ pc = "Running"
        /\ ~Solved
        /\ ~Seen
        /\ Len(moves') = Len(moves) + 1)
       => LET m == moves'[Len(moves')]
          IN /\ ~CompleteTube(tubes[m[1]], tube_capacity)
             /\ get_state_hash(tubes') # get_state_hash(tubes)]_vars

\* C20 amended: in an iteration on an unseen fingerprint the pair poured is
\* legal; the pour leaves the fingerprint as it was exactly when the source
\* and the destination exchange their contents, which is what pouring a
\* completed tube into an empty one does; and a planned pour whose source is
\* a completed tube goes to an empty tube.
HeuristicPourFingerprint ==
    [][(/\ pc = "Running"
        /\ ~Solved
        /\ ~Seen
        /\ Len(moves') = Len(moves) + 1)
       => LET m == moves'[Len(moves')]
              targets == find_target_color(tubes, tube_capacity)
          IN /\ LegalPour(tubes, tube_capacity, m[1], m[2])
             /\ (get_state_hash(tubes') = get_state_hash(tubes))
                  <=> (/\ tubes'[m[1]] = tubes[m[2]]
                       /\ tubes'[m[2]] = tubes[m[1]])
             /\ (/\ CompleteTube(tubes[m[1]], tube_capacity)
                 /\ targets # {}
                 /\ \A c \in targets :
                       Len(generated_moves(tubes, tube_capacity, c)) > 0)
                  => tubes[m[2]] = <<>>]_vars

\* The first iteration of solve poured out of a completed tube, next to a
\* tube that is neither empty nor complete, and found the fingerprint it had
\* just recorded.
CompletedSourceWitness ==
    /\ pc = "Running"
    /\ ~Solved
    /\ Len(moves) = 1
    /\ Cardinality(visited_states) = 1
    /\ CompleteTube(original_tubes[moves[1][1]], tube_capacity)
    /\ \E i \in DOMAIN tubes :
          tubes[i] # <<>> /\ ~CompleteTube(tubes[i], tube_capacity)
    /\ Seen

=============================================================================
